---------------------------- MODULE Spec2Model ----------------------------
(***************************************************************************)
(* Model of incendium.dataset (src/ignition/script-python/incendium/       *)
(* dataset/code.py): the Dataset -> JSON text, Dataset -> Python object,   *)
(* Dataset -> XML text converters and the list-of-dicts Dataset            *)
(* constructor; and of incendium.db.DisposableConnection (src/ignition/    *)
(* script-python/incendium/db/code.py).                                    *)
(*                                                                         *)
(* Text is modelled as a sequence of one-character strings, so that the    *)
(* exact characters the code emits (quotes, commas, braces, indentation)   *)
(* are what the properties talk about.                                     *)
(***************************************************************************)
EXTENDS Integers, Sequences, FiniteSets, TLC

VARIABLES
    list_of_dicts,  \* argument of from_list_of_dicts (a sequence of dicts)
    built,          \* TRUE once `dataset` holds a Dataset
    dataset,        \* the Dataset handed to the converters
    json_called,    \* to_json has returned
    json_root,      \* the root argument of that to_json call
    json_ret,       \* its return value (text)
    json_recursion, \* [calls, depth] of the nested _to_json calls it made
    obj_called,     \* to_jsonobject has returned
    obj_ret,        \* its return value (list of dicts)
    obj_recursion,  \* [calls, depth] of the nested _to_jsonobject calls
    xml_pc,         \* position of the to_xml call
    xml_args,       \* [root, element, indent] arguments of to_xml
    xml_i,          \* to_xml: row index i of `for i in range(row_count)`
    xml_h,          \* to_xml: position in `for header in headers`
    xml_output,     \* _NanoXML._output of the builder to_xml created
    xml_ops,        \* builder methods called so far, in order
    xml_ret,        \* return value of to_xml
    heap,           \* Dataset objects that concurrent conversions read
    procs,          \* concurrent conversion calls: the locals of each
    buffers,        \* _NanoXML._output of the builders those calls made
    datasource_enabled, \* the datasource of a DisposableConnection is enabled
    datasource_status,  \* its status in system.db.getConnectionInfo
    globals,        \* system.util.globals: the counter of the datasource
    contexts        \* DisposableConnection contexts: position and locals

vars == << list_of_dicts, built, dataset, json_called, json_root, json_ret,
           json_recursion, obj_called, obj_ret, obj_recursion, xml_pc,
           xml_args, xml_i, xml_h, xml_output, xml_ops, xml_ret,
           heap, procs, buffers,
           datasource_enabled, datasource_status, globals, contexts >>

jsonVars == << json_called, json_root, json_ret, json_recursion >>
objVars  == << obj_called, obj_ret, obj_recursion >>
xmlVars  == << xml_pc, xml_args, xml_i, xml_h, xml_output, xml_ops, xml_ret >>
concVars == << heap, procs, buffers >>
dbVars   == << datasource_enabled, datasource_status, globals, contexts >>

---------------------------------------------------------------------------
(* Bounds of the model.                                                    *)

\* Largest number of rows of a generated Dataset / dicts of a generated list.
MaxRows == 2

---------------------------------------------------------------------------
(* Text helpers.                                                           *)

Q == "\""

RECURSIVE NatDigits(_)
NatDigits(n) ==
    LET d == << "0", "1", "2", "3", "4", "5", "6", "7", "8", "9" >>
    IN  IF n < 10 THEN << d[n + 1] >>
                  ELSE NatDigits(n \div 10) \o << d[(n % 10) + 1] >>

\* repr() / unicode() of a Python int.
IntText(n) == IF n < 0 THEN << "-" >> \o NatDigits(-n) ELSE NatDigits(n)

\* repr() / unicode() of a Python bool.
BoolText(b) == IF b THEN << "T", "r", "u", "e" >>
                    ELSE << "F", "a", "l", "s", "e" >>

---------------------------------------------------------------------------
(* Cell values: the kinds a Dataset cell can hold.                         *)

NullV     == [k |-> "Null"]
TextV(s)  == [k |-> "Text", s |-> s]
DateV(t)  == [k |-> "Date", t |-> t]      \* java.util.Date, t ms after epoch
NumV(n)   == [k |-> "Num",  n |-> n]
BoolV(b)  == [k |-> "Bool", b |-> b]
DataV(d)  == [k |-> "Dataset", d |-> d]

\* A Dataset: ordered column names and rows of cells.
MkDataset(cols, rows) == [cols |-> cols, rows |-> rows]

getColumnNames(ds) == ds.cols
getColumnCount(ds) == Len(ds.cols)
getRowCount(ds)    == Len(ds.rows)

\* Lookup of a column by name: the first column carrying that name.
getColumnIndex(ds, header) ==
    CHOOSE c \in 1..Len(ds.cols) :
        /\ ds.cols[c] = header
        /\ \A b \in 1..(c - 1) : ds.cols[b] # header

\* dataset.getValueAt(i, header) and PyDataSet row[header].
getValueAt(ds, i, header) == ds.rows[i][getColumnIndex(ds, header)]

\* system.date.format(obj, "yyyy-MM-dd'T'HH:mm:ss.SSSXXX"), gateway in UTC.
dateFormat(t) ==
    << "1","9","7","0","-","0","1","-","0","1","T",
       "0","0",":","0","0",":","0","0","." >>
    \o (IF t < 10 THEN << "0", "0" >> ELSE IF t < 100 THEN << "0" >> ELSE << >>)
    \o NatDigits(t) \o << "Z" >>

---------------------------------------------------------------------------
(* JSON text converter.                                                    *)

\* The root argument: None, or a text.
None       == << >>
Some(s)    == << s >>
IsNone(r)  == r = << >>

RECURSIVE _to_json(_, _, _)
RECURSIVE _format_value(_, _)
RECURSIVE to_json_headers(_, _, _, _, _)
RECURSIVE to_json_rows(_, _, _)

\* Mutant of _format_value: the basestring test comes after the default
\* rule, so a text is rendered by repr (u'...') like any other scalar.
format_value_repr_first(obj, header) ==
    IF obj.k = "Null" THEN << "n", "u", "l", "l" >>
    ELSE IF obj.k = "Date" THEN << Q >> \o dateFormat(obj.t) \o << Q >>
    ELSE IF obj.k = "Dataset" THEN _to_json(obj.d, Some(header), FALSE)
    ELSE IF obj.k = "Bool" THEN BoolText(obj.b)
    ELSE IF obj.k = "Num" THEN IntText(obj.n)
    ELSE << "u", "'" >> \o obj.s \o << "'" >>

_format_value(obj, header) ==
    IF obj.k = "Null" THEN << "n", "u", "l", "l" >>
    ELSE IF obj.k = "Text" THEN << Q >> \o obj.s \o << Q >>
    ELSE IF obj.k = "Date" THEN << Q >> \o dateFormat(obj.t) \o << Q >>
    ELSE IF obj.k = "Dataset" THEN _to_json(obj.d, Some(header), FALSE)
    ELSE IF obj.k = "Bool" THEN BoolText(obj.b)
    ELSE IntText(obj.n)

\* Comma after the pair at column position col_count (1-based) of a row.
column_comma(col_count, columns) ==
    IF col_count < columns THEN << "," >> ELSE << >>

\* Comma after the row object number row_count (1-based).
row_comma(row_count, rows) ==
    IF row_count < rows THEN << "," >> ELSE << >>

\* Mutant of json_pair: the '"column":' prefix is added for every cell.
json_pair_keyed(ds, row, header, col_count) ==
    << Q >> \o header \o << Q, ":" >>
    \o _format_value(getValueAt(ds, row, header), header)
    \o column_comma(col_count, getColumnCount(ds))

\* What one iteration of `for header in headers` appends.
json_pair(ds, row, header, col_count) ==
    LET cell  == getValueAt(ds, row, header)
        val   == _format_value(cell, header)
        comma == column_comma(col_count, getColumnCount(ds))
    IN  IF cell.k = "Dataset"
        THEN val \o comma
        ELSE << Q >> \o header \o << Q, ":" >> \o val \o comma

\* `for header in headers:` from position h on; st = [ret_str, col_count].
to_json_headers(ds, row, h, st, headers) ==
    IF h > Len(headers) THEN st
    ELSE LET col_count == st.col_count + 1
         IN  to_json_headers(ds, row, h + 1,
                 [ret_str   |-> st.ret_str
                                \o json_pair(ds, row, headers[h], col_count),
                  col_count |-> col_count],
                 headers)

\* Mutant of col_count_reset: the counter runs on into the next row.
col_count_kept(col_count) == col_count

\* Value of col_count when the next row starts.
col_count_reset(col_count) == 0

\* `for row_count, row in enumerate(data, start=1):` from row_count on.
to_json_rows(ds, row_count, st) ==
    IF row_count > getRowCount(ds) THEN st
    ELSE LET opened == [st EXCEPT !.ret_str = @ \o << "{" >>]
             filled == to_json_headers(ds, row_count, 1, opened,
                                       getColumnNames(ds))
         IN  to_json_rows(ds, row_count + 1,
                 [ret_str   |-> filled.ret_str \o << "}" >>
                                \o row_comma(row_count, getRowCount(ds)),
                  col_count |-> col_count_reset(filled.col_count)])

\* Text before the rows: optional "{", then '"root":[' or "[".
json_open(root, is_root) ==
    (IF is_root /\ ~IsNone(root) THEN << "{" >> ELSE << >>)
    \o (IF ~IsNone(root) THEN << Q >> \o root[1] \o << Q, ":", "[" >>
                         ELSE << "[" >>)

\* Mutant of json_close: the closing brace depends on is_root alone.
json_close_any_root(root, is_root) ==
    << "]" >> \o (IF is_root THEN << "}" >> ELSE << >>)

\* Text after the rows: "]", then optional "}".
json_close(root, is_root) ==
    << "]" >> \o (IF is_root /\ ~IsNone(root) THEN << "}" >> ELSE << >>)

_to_json(ds, root, is_root) ==
    to_json_rows(ds, 1, [ret_str |-> json_open(root, is_root),
                         col_count |-> 0]).ret_str
    \o json_close(root, is_root)

to_json(ds, root) == _to_json(ds, root, TRUE)

\* The values _format_value receives while _to_json(ds) runs: one per row
\* and per iteration of `for header in headers`, looked up by column name.
formatted_values(ds) ==
    [n \in 1..(getRowCount(ds) * getColumnCount(ds)) |->
        getValueAt(ds, ((n - 1) \div getColumnCount(ds)) + 1,
                   getColumnNames(ds)[((n - 1) % getColumnCount(ds)) + 1])]

RECURSIVE SumSeq(_)
SumSeq(ns) == IF ns = << >> THEN 0 ELSE Head(ns) + SumSeq(Tail(ns))

RECURSIVE MaxSeq(_)
MaxSeq(ns) ==
    IF ns = << >> THEN 0
    ELSE LET m == MaxSeq(Tail(ns)) IN IF Head(ns) > m THEN Head(ns) ELSE m

\* Number of calls of _to_json that _format_value makes, directly and
\* indirectly, while _to_json(ds) runs.
RECURSIVE to_json_calls(_)
to_json_calls(ds) ==
    SumSeq([n \in 1..Len(formatted_values(ds)) |->
              LET obj == formatted_values(ds)[n]
              IN  IF obj.k = "Dataset" THEN 1 + to_json_calls(obj.d) ELSE 0])

\* Largest number of _to_json frames open below the frame of _to_json(ds).
RECURSIVE to_json_depth(_)
to_json_depth(ds) ==
    MaxSeq([n \in 1..Len(formatted_values(ds)) |->
              LET obj == formatted_values(ds)[n]
              IN  IF obj.k = "Dataset" THEN 1 + to_json_depth(obj.d) ELSE 0])

---------------------------------------------------------------------------
(* Python object converter.                                                *)

RECURSIVE _to_jsonobject(_)
RECURSIVE _format_object(_)

\* Mutant of _format_object: a nested Dataset is passed through as it is.
format_object_flat(obj) == obj

_format_object(obj) ==
    IF obj.k = "Dataset" THEN [k |-> "List", l |-> _to_jsonobject(obj.d)]
                         ELSE obj

\* The dict comprehension {header: ... for header in headers} of row i.
row_dict(ds, i) ==
    [header \in {ds.cols[c] : c \in 1..Len(ds.cols)} |->
        _format_object(getValueAt(ds, i, header))]

_to_jsonobject(ds) == [i \in 1..getRowCount(ds) |-> row_dict(ds, i)]

to_jsonobject(ds) == _to_jsonobject(ds)

\* Number of calls of _to_jsonobject that _format_object makes, directly
\* and indirectly, while _to_jsonobject(ds) runs: the comprehension calls
\* _format_object once per row and per iteration of `for header in headers`.
RECURSIVE to_jsonobject_calls(_)
to_jsonobject_calls(ds) ==
    SumSeq([n \in 1..Len(formatted_values(ds)) |->
              LET obj == formatted_values(ds)[n]
              IN  IF obj.k = "Dataset" THEN 1 + to_jsonobject_calls(obj.d)
                                       ELSE 0])

\* Largest number of _to_jsonobject frames open below _to_jsonobject(ds).
RECURSIVE to_jsonobject_depth(_)
to_jsonobject_depth(ds) ==
    MaxSeq([n \in 1..Len(formatted_values(ds)) |->
              LET obj == formatted_values(ds)[n]
              IN  IF obj.k = "Dataset" THEN 1 + to_jsonobject_depth(obj.d)
                                       ELSE 0])

---------------------------------------------------------------------------
(* XML text builder and converter.                                         *)

\* unicode(value): what "{value}".format(value=value) inserts.
pyStr(obj) ==
    IF obj.k = "Null" THEN << "N", "o", "n", "e" >>
    ELSE IF obj.k = "Text" THEN obj.s
    ELSE IF obj.k = "Date"
         THEN << "T","h","u"," ","J","a","n"," ","0","1"," ",
                 "0","0",":","0","0",":","0","0"," ","U","T","C"," ",
                 "1","9","7","0" >>
    ELSE IF obj.k = "Dataset"
         THEN << "D","a","t","a","s","e","t"," ","[" >>
              \o NatDigits(getRowCount(obj.d)) \o << "R", " ", "x", " " >>
              \o NatDigits(getColumnCount(obj.d)) \o << "C", "]" >>
    ELSE IF obj.k = "Bool" THEN BoolText(obj.b)
    ELSE IntText(obj.n)

new_line == << "\n" >>

\* _NanoXML.__init__: the initial _output.
NanoXML_init(root) == << "<" >> \o root \o << ">" >> \o new_line

\* What _NanoXML.add_element appends to _output.
add_element(indent, name) ==
    indent \o << "<" >> \o name \o << ">" >> \o new_line

\* Mutant of sub_indent: a sub element is indented like its element.
sub_indent_single(indent) == indent

\* Indentation of a sub element.
sub_indent(indent) == indent \o indent

\* What _NanoXML.add_sub_element appends to _output.
add_sub_element(indent, name, value) ==
    sub_indent(indent) \o << "<" >> \o name \o << ">" >> \o pyStr(value)
    \o << "<", "/" >> \o name \o << ">" >> \o new_line

\* What _NanoXML.close_element appends to _output.
close_element(indent, name) ==
    indent \o << "<", "/" >> \o name \o << ">" >> \o new_line

\* What _NanoXML.to_string appends to _output.
to_string(root) == << "<", "/" >> \o root \o << ">" >>

---------------------------------------------------------------------------
(* Dataset constructor.                                                    *)

\* Mutant of keys_union: the keys of the first dict only.
keys_of_first(lod) == IF lod = << >> THEN { } ELSE DOMAIN lod[1]

\* keys_set.union(*(d.keys() for d in list_of_dicts))
keys_union(lod) == UNION { DOMAIN lod[i] : i \in 1..Len(lod) }

\* The orders list(a_set) can produce: iteration order of a set is
\* unspecified, so every order of its elements.
list_of_set(S) ==
    { s \in [1..Cardinality(S) -> S] :
        \A i, j \in 1..Cardinality(S) : i # j => s[i] # s[j] }

\* Cell appended for `header` while building the row of dict_.
ctor_cell(dict_, header) ==
    IF header \in DOMAIN dict_ THEN dict_[header] ELSE NullV

\* The body of from_list_of_dicts once `headers` is fixed.
from_list_of_dicts(lod, headers) ==
    MkDataset(headers,
              [i \in 1..Len(lod) |->
                  [c \in 1..Len(headers) |-> ctor_cell(lod[i], headers[c])]])

---------------------------------------------------------------------------
(* Inputs the model is run on.                                             *)

name_a    == << "a" >>
name_b    == << "b" >>
name_row  == << "r", "o", "w" >>
name_root == << "r", "o", "o", "t" >>

text_x     == << "x" >>
text_quote == << "a", Q, "b" >>
text_tag   == << "<", "r", "o", "w", ">" >>
text_brace == << "}", "[" >>

\* Nested datasets of depth 1 and 2, and an empty one.
Inner0 == MkDataset(<< >>, << >>)
Inner1 == MkDataset(<< name_b >>, << << NumV(1) >> >>)
Inner2 == MkDataset(<< name_a, name_b >>,
                    << << DataV(Inner1), TextV(text_x) >>,
                       << NullV, DataV(Inner1) >> >>)

\* Column name lists, with and without a duplicated name.
HeaderLists == { << >>, << name_a >>, << name_a, name_b >>,
                 << name_a, name_a >>, << name_row, name_a >> }

\* All datasets over the header lists with at most MaxRows rows and every
\* cell drawn from the palette P.
DatasetsOver(P) ==
    UNION { { MkDataset(hl, rows) :
                rows \in UNION { [1..n -> [1..Len(hl) -> P]] : n \in 0..MaxRows } }
            : hl \in HeaderLists }

JsonPalettes ==
    { { NullV, TextV(text_x), NumV(7) },
      { BoolV(TRUE), DateV(5), TextV(text_quote) },
      { DataV(Inner1), NumV(-12), TextV(text_x) },
      { DataV(Inner0), DataV(Inner2), TextV(text_brace) } }

JsonDatasets == UNION { DatasetsOver(P) : P \in JsonPalettes }

Roots == { None, Some(name_root), Some(<< >>) }

XmlPalettes ==
    { { NullV, TextV(text_tag), NumV(7) },
      { BoolV(FALSE), DateV(5), DataV(Inner1) },
      { NumV(-12), TextV(<< >>) } }

XmlDatasets == UNION { DatasetsOver(P) : P \in XmlPalettes }

XmlArgs ==
    { [root |-> name_root, element |-> name_row, indent |-> << "\t" >>],
      [root |-> name_a,    element |-> name_b,   indent |-> << " ", " " >>],
      [root |-> name_row,  element |-> name_a,   indent |-> << >>] }

\* Dicts with keys among a, b: numbers or None under a, text or None under b.
DictValues(key) ==
    IF key = name_a THEN { NullV, NumV(1), NumV(2) } ELSE { NullV, TextV(text_x) }

Dicts ==
    UNION { { d \in [K -> { NullV, NumV(1), NumV(2), TextV(text_x) }] :
                \A key \in K : d[key] \in DictValues(key) }
            : K \in SUBSET { name_a, name_b } }

DictLists == UNION { [1..n -> Dicts] : n \in 0..MaxRows }

---------------------------------------------------------------------------
(* The state machine.                                                      *)

NoDataset == MkDataset(<< >>, << >>)

ConvertersIdle ==
    /\ json_called = FALSE /\ json_root = None /\ json_ret = << >>
    /\ json_recursion = [calls |-> 0, depth |-> 0]
    /\ obj_called = FALSE /\ obj_ret = << >>
    /\ obj_recursion = [calls |-> 0, depth |-> 0]

\* No concurrent conversion is running.
NoConversions == heap = << >> /\ procs = << >> /\ buffers = << >>

\* No DisposableConnection exists.
NoConnections ==
    /\ datasource_enabled = FALSE /\ datasource_status = "Disabled"
    /\ globals = << >> /\ contexts = << >>

XmlIdle ==
    /\ xml_pc = "idle"
    /\ xml_args = [root |-> << >>, element |-> << >>, indent |-> << >>]
    /\ xml_i = 0 /\ xml_h = 0
    /\ xml_output = << >> /\ xml_ops = << >> /\ xml_ret = << >>

\* A Dataset exists; to_json and to_jsonobject may be called on it.
Init ==
    /\ list_of_dicts = << >>
    /\ built = TRUE
    /\ dataset \in JsonDatasets
    /\ NoConversions /\ NoConnections
    /\ ConvertersIdle /\ XmlIdle

\* A Dataset exists; to_xml may be called on it.
InitXml ==
    /\ list_of_dicts = << >>
    /\ built = TRUE
    /\ dataset \in XmlDatasets
    /\ NoConversions /\ NoConnections
    /\ ConvertersIdle /\ XmlIdle

\* A list of dicts exists; from_list_of_dicts may be called on it.
InitCtor ==
    /\ list_of_dicts \in DictLists
    /\ built = FALSE
    /\ dataset = NoDataset
    /\ NoConversions /\ NoConnections
    /\ ConvertersIdle /\ XmlIdle

\* dataset = from_list_of_dicts(list_of_dicts)
FromListOfDicts ==
    /\ ~built
    /\ \E headers \in list_of_set(keys_union(list_of_dicts)) :
          dataset' = from_list_of_dicts(list_of_dicts, headers)
    /\ built' = TRUE
    /\ UNCHANGED << concVars, dbVars, list_of_dicts, jsonVars, objVars, xmlVars >>

\* json_ret = to_json(dataset, root)
ToJson ==
    /\ built /\ ~json_called
    /\ \E root \in Roots :
          /\ json_root' = root
          /\ json_ret' = to_json(dataset, root)
    /\ json_recursion' = [calls |-> to_json_calls(dataset),
                          depth |-> to_json_depth(dataset)]
    /\ json_called' = TRUE
    /\ UNCHANGED << concVars, dbVars, list_of_dicts, built, dataset, objVars, xmlVars >>

\* obj_ret = to_jsonobject(dataset)
ToJsonObject ==
    /\ built /\ ~obj_called
    /\ obj_ret' = to_jsonobject(dataset)
    /\ obj_recursion' = [calls |-> to_jsonobject_calls(dataset),
                         depth |-> to_jsonobject_depth(dataset)]
    /\ obj_called' = TRUE
    /\ UNCHANGED << concVars, dbVars, list_of_dicts, built, dataset, jsonVars, xmlVars >>

\* to_xml is entered: headers and row_count are read and the builder made.
ToXmlCall ==
    /\ built /\ xml_pc = "idle"
    /\ \E args \in XmlArgs :
          /\ xml_args' = args
          /\ xml_output' = NanoXML_init(args.root)
    /\ xml_ops' = << "init" >>
    /\ xml_i' = 1 /\ xml_h' = 0
    /\ xml_pc' = "rows"
    /\ UNCHANGED << concVars, dbVars, list_of_dicts, built, dataset, jsonVars, objVars, xml_ret >>

\* xml.add_element(element) for row i.
ToXmlAddElement ==
    /\ xml_pc = "rows" /\ xml_i <= getRowCount(dataset)
    /\ xml_output' = xml_output \o add_element(xml_args.indent, xml_args.element)
    /\ xml_ops' = Append(xml_ops, "add_element")
    /\ xml_h' = 1
    /\ xml_pc' = "headers"
    /\ UNCHANGED << concVars, dbVars, list_of_dicts, built, dataset, jsonVars, objVars,
                    xml_args, xml_i, xml_ret >>

\* xml.add_sub_element(header, dataset.getValueAt(i, header))
ToXmlAddSubElement ==
    /\ xml_pc = "headers" /\ xml_h <= getColumnCount(dataset)
    /\ LET header == getColumnNames(dataset)[xml_h]
       IN  xml_output' = xml_output
              \o add_sub_element(xml_args.indent, header,
                                 getValueAt(dataset, xml_i, header))
    /\ xml_ops' = Append(xml_ops, "add_sub_element")
    /\ xml_h' = xml_h + 1
    /\ UNCHANGED << concVars, dbVars, list_of_dicts, built, dataset, jsonVars, objVars,
                    xml_pc, xml_args, xml_i, xml_ret >>

\* xml.close_element(element), after the last header of row i.
ToXmlCloseElement ==
    /\ xml_pc = "headers" /\ xml_h > getColumnCount(dataset)
    /\ xml_output' = xml_output \o close_element(xml_args.indent, xml_args.element)
    /\ xml_ops' = Append(xml_ops, "close_element")
    /\ xml_i' = xml_i + 1
    /\ xml_h' = 0
    /\ xml_pc' = "rows"
    /\ UNCHANGED << concVars, dbVars, list_of_dicts, built, dataset, jsonVars, objVars,
                    xml_args, xml_ret >>

\* return xml.to_string(), after the last row.
ToXmlReturn ==
    /\ xml_pc = "rows" /\ xml_i > getRowCount(dataset)
    /\ xml_output' = xml_output \o to_string(xml_args.root)
    /\ xml_ret' = xml_output'
    /\ xml_ops' = Append(xml_ops, "to_string")
    /\ xml_pc' = "done"
    /\ UNCHANGED << concVars, dbVars, list_of_dicts, built, dataset, jsonVars, objVars,
                    xml_args, xml_i, xml_h >>

Next == ToJson \/ ToJsonObject

NextXml ==
    \/ ToXmlCall
    \/ ToXmlAddElement
    \/ ToXmlAddSubElement
    \/ ToXmlCloseElement
    \/ ToXmlReturn

NextCtor == FromListOfDicts \/ ToJson \/ ToJsonObject

Spec     == Init /\ [][Next]_vars
SpecXml  == InitXml /\ [][NextXml]_vars
SpecCtor == InitCtor /\ [][NextCtor]_vars

---------------------------------------------------------------------------
(* Vocabulary of the properties.                                           *)

RECURSIVE Flatten(_)
\* The texts of `parts` in order, one after the other.
Flatten(parts) ==
    IF parts = << >> THEN << >> ELSE Head(parts) \o Flatten(Tail(parts))

RECURSIVE JoinWith(_, _)
\* The texts of `parts` in order, with `sep` between neighbours only.
JoinWith(parts, sep) ==
    IF parts = << >> THEN << >>
    ELSE IF Len(parts) = 1 THEN parts[1]
    ELSE parts[1] \o sep \o JoinWith(Tail(parts), sep)

\* Number of positions of `text` holding the character ch.
CountChar(ch, text) == Cardinality({ i \in 1..Len(text) : text[i] = ch })

\* Number of positions of `text` at which `pat` occurs.
CountOcc(pat, text) ==
    Cardinality({ i \in 1..(Len(text) - Len(pat) + 1) :
                    SubSeq(text, i, i + Len(pat) - 1) = pat })

\* The cell a lookup by column name reaches from column position c.
CellAt(ds, r, c) == getValueAt(ds, r, ds.cols[c])

HasNested(ds) ==
    \E r \in 1..Len(ds.rows) : \E c \in 1..Len(ds.cols) :
        CellAt(ds, r, c).k = "Dataset"

\* Scalar cell as a '"column":value' pair.
FlatPair(ds, r, c) ==
    << Q >> \o ds.cols[c] \o << Q, ":" >> \o _format_value(CellAt(ds, r, c), ds.cols[c])

\* '[' row objects joined by commas ']' for a dataset without nested cells.
FlatJson(ds) ==
    << "[" >>
    \o JoinWith([r \in 1..Len(ds.rows) |->
                    << "{" >>
                    \o JoinWith([c \in 1..Len(ds.cols) |-> FlatPair(ds, r, c)],
                                << "," >>)
                    \o << "}" >>],
                << "," >>)
    \o << "]" >>

(* C1: for a dataset without nested cells, to_json(D, root=None) is '['    *)
(* followed by its row objects in row order joined by single commas and    *)
(* ']', each row object being '{', its '"column":value' pairs in column    *)
(* order joined by single commas, and '}': no comma follows the last pair  *)
(* of a row or the last row, in the first row as in every later one.       *)
C1_FlatJsonLayout ==
    (json_called /\ IsNone(json_root) /\ ~HasNested(dataset))
        => json_ret = FlatJson(dataset)

C1_Witness ==
    /\ json_called /\ IsNone(json_root) /\ ~HasNested(dataset)
    /\ getRowCount(dataset) >= 2 /\ getColumnCount(dataset) >= 2
    /\ json_ret = FlatJson(dataset)

RECURSIVE NestedJson(_, _)
\* The layout of C1 with root prefix `key` (a text, or None), where a
\* nested-dataset cell contributes the layout of the nested dataset under
\* its column name, without braces and without a second '"column":'.
NestedJson(ds, key) ==
    (IF IsNone(key) THEN << >> ELSE << Q >> \o key[1] \o << Q, ":" >>)
    \o << "[" >>
    \o JoinWith([r \in 1..Len(ds.rows) |->
                    << "{" >>
                    \o JoinWith([c \in 1..Len(ds.cols) |->
                                    IF CellAt(ds, r, c).k = "Dataset"
                                    THEN NestedJson(CellAt(ds, r, c).d,
                                                    Some(ds.cols[c]))
                                    ELSE FlatPair(ds, r, c)],
                                << "," >>)
                    \o << "}" >>],
                << "," >>)
    \o << "]" >>

RECURSIVE Depth(_)
\* Nesting depth of a dataset: 0 without nested cells.
Depth(ds) ==
    LET cells == { p \in (1..Len(ds.rows)) \X (1..Len(ds.cols)) :
                     ds.rows[p[1]][p[2]].k = "Dataset" }
        inner == { Depth(ds.rows[p[1]][p[2]].d) : p \in cells }
    IN  IF inner = { } THEN 0
        ELSE 1 + CHOOSE m \in inner : \A n \in inner : n <= m

RECURSIVE BraceFree(_)
\* No text cell of the dataset, at any depth, holds a brace or a bracket.
BraceFree(ds) ==
    \A r \in 1..Len(ds.rows) : \A c \in 1..Len(ds.cols) :
        LET cell == ds.rows[r][c]
        IN  /\ cell.k = "Text"
                => \A i \in 1..Len(cell.s) : cell.s[i] \notin { "{", "}", "[", "]" }
            /\ cell.k = "Dataset" => BraceFree(cell.d)

(* C3: to_json returns the bare array '[...]' when root is None and        *)
(* '{"<root>":[...]}' when a root key is given; the non-root call made for *)
(* a nested dataset returns '"<root>":[...]' without braces around it.     *)
(* The opening brace of the wrapper is there exactly when its closing      *)
(* brace is, so the braces and brackets the converter emits are balanced.  *)
C3_RootWrapping ==
    json_called =>
        /\ IsNone(json_root) => json_ret = NestedJson(dataset, None)
        /\ ~IsNone(json_root) =>
              json_ret = << "{", Q >> \o json_root[1] \o << Q, ":" >>
                         \o NestedJson(dataset, None) \o << "}" >>
        /\ (Head(json_ret) = "{") <=> ~IsNone(json_root)
        /\ (json_ret[Len(json_ret)] = "}") <=> ~IsNone(json_root)
        /\ \A r \in 1..Len(dataset.rows) : \A c \in 1..Len(dataset.cols) :
              CellAt(dataset, r, c).k = "Dataset" =>
                 _to_json(CellAt(dataset, r, c).d, Some(dataset.cols[c]), FALSE)
                    = << Q >> \o dataset.cols[c] \o << Q, ":" >>
                      \o NestedJson(CellAt(dataset, r, c).d, None)
        /\ BraceFree(dataset) =>
              /\ CountChar("{", json_ret) = CountChar("}", json_ret)
              /\ CountChar("[", json_ret) = CountChar("]", json_ret)

C3_Witness ==
    /\ json_called /\ json_root = Some(name_root)
    /\ HasNested(dataset) /\ BraceFree(dataset)
    /\ getRowCount(dataset) = 2
    /\ Head(json_ret) = "{" /\ json_ret[Len(json_ret)] = "}"
    /\ CountChar("{", json_ret) = CountChar("}", json_ret)
    /\ CountChar("{", json_ret) >= 4

\* Position of the first column named header.
FirstPos(ds, header) ==
    LET at == { c \in 1..Len(ds.cols) : ds.cols[c] = header }
    IN  CHOOSE c \in at : \A b \in at : c <= b

RECURSIVE ObjectOf(_)
\* The native value of a cell: the cell itself, or for a nested dataset the
\* list of its rows as mappings of column name to native value.
ObjectOf(cell) ==
    IF cell.k # "Dataset" THEN cell
    ELSE [k |-> "List",
          l |-> [i \in 1..Len(cell.d.rows) |->
                   [h \in { cell.d.cols[c] : c \in 1..Len(cell.d.cols) } |->
                       ObjectOf(cell.d.rows[i][FirstPos(cell.d, h)])]]]

(* C6: to_jsonobject(D) is a sequence of exactly rowCount(D) mappings in   *)
(* row order; the mapping of row i has the column names of D as its keys   *)
(* and maps each name to the cell of row i in the (first) column of that   *)
(* name: a nested dataset converted recursively, any other value as it is. *)
C6_ObjectRows ==
    obj_called =>
        /\ Len(obj_ret) = getRowCount(dataset)
        /\ \A i \in 1..Len(obj_ret) :
              /\ DOMAIN obj_ret[i]
                    = { dataset.cols[c] : c \in 1..Len(dataset.cols) }
              /\ \A c \in 1..Len(dataset.cols) :
                    obj_ret[i][dataset.cols[c]]
                       = ObjectOf(dataset.rows[i][FirstPos(dataset, dataset.cols[c])])

C6_Witness ==
    /\ obj_called
    /\ getRowCount(dataset) = 2 /\ getColumnCount(dataset) = 2
    /\ Depth(dataset) >= 2
    /\ dataset.cols[1] # dataset.cols[2]
    /\ dataset.rows[2][1].k = "Text"
    /\ obj_ret[2][dataset.cols[1]] = dataset.rows[2][1]
    /\ obj_ret[1][dataset.cols[2]].k = "List"

\* '<name>' and '</name>'.
OpenTag(name)  == << "<" >> \o name \o << ">" >>
CloseTag(name) == << "<", "/" >> \o name \o << ">" >>

\* The document to_xml is to return for ds under args.
XmlDocument(ds, args) ==
    OpenTag(args.root) \o << "\n" >>
    \o Flatten([r \in 1..Len(ds.rows) |->
          args.indent \o OpenTag(args.element) \o << "\n" >>
          \o Flatten([c \in 1..Len(ds.cols) |->
                args.indent \o args.indent \o OpenTag(ds.cols[c])
                \o pyStr(CellAt(ds, r, c)) \o CloseTag(ds.cols[c]) \o << "\n" >>])
          \o args.indent \o CloseTag(args.element) \o << "\n" >>])
    \o CloseTag(args.root)

\* The builder calls to_xml is to make for ds, in order.
XmlCalls(ds) ==
    << "init" >>
    \o Flatten([r \in 1..Len(ds.rows) |->
          << "add_element" >>
          \o [c \in 1..Len(ds.cols) |-> "add_sub_element"]
          \o << "close_element" >>])
    \o << "to_string" >>

(* C7: to_xml(D, root, element, indent) is '<root>\n', then per row in     *)
(* row order indent '<element>\n', per column in column order indent       *)
(* twice '<column>value</column>\n', indent '</element>\n', and last       *)
(* '</root>' without a newline; the builder is opened, then per row        *)
(* add_element, one add_sub_element per column and close_element are       *)
(* called, then to_string exactly once; zero rows give '<root>\n</root>'.  *)
C7_XmlLayout ==
    /\ Cardinality({ n \in 1..Len(xml_ops) : xml_ops[n] = "to_string" })
          = IF xml_pc = "done" THEN 1 ELSE 0
    /\ xml_pc = "done" =>
          /\ xml_ret = XmlDocument(dataset, xml_args)
          /\ xml_ops = XmlCalls(dataset)
          /\ getRowCount(dataset) = 0 =>
                xml_ret = OpenTag(xml_args.root) \o << "\n" >>
                          \o CloseTag(xml_args.root)

C7_Witness ==
    /\ xml_pc = "done"
    /\ getRowCount(dataset) = 2 /\ getColumnCount(dataset) = 2
    /\ xml_args.indent = << " ", " " >>
    /\ xml_ret = XmlDocument(dataset, xml_args)
    /\ Len(xml_ops) = 10

(* C8: to_xml(D) holds exactly rowCount(D) opening tags (and as many       *)
(* closing tags) of the row element, and each row element holds exactly    *)
(* columnCount(D) leaf elements, so the document closes                    *)
(* rowCount * columnCount leaves, rowCount rows and one root; also when a  *)
(* column is named like the row element or the root and when cell text     *)
(* holds tag-like text.                                                    *)
C8_XmlCounts ==
    xml_pc = "done" =>
        /\ CountOcc(OpenTag(xml_args.element), xml_ret) = getRowCount(dataset)
        /\ CountOcc(CloseTag(xml_args.element), xml_ret) = getRowCount(dataset)
        /\ CountOcc(<< "<", "/" >>, xml_ret)
              = getRowCount(dataset) * getColumnCount(dataset)
                + getRowCount(dataset) + 1

\* Every key of every dict of the list.
AllKeys(lod) == { k \in { name_a, name_b } : \E i \in 1..Len(lod) : k \in DOMAIN lod[i] }

\* The value the list gives row i under key k: the dict's own, else Null.
ValueOrNull(lod, i, k) == IF k \in DOMAIN lod[i] THEN lod[i][k] ELSE NullV

(* C9: from_list_of_dicts(L) has as columns the union of the keys of all   *)
(* dicts of L, each once, and len(L) rows in the order of L with one cell  *)
(* per column: L[i][k] where k is a key of L[i], Null elsewhere.  So       *)
(* to_jsonobject of it gives L[i][k] back for a key of L[i] and null for   *)
(* a column L[i] lacks.                                                    *)
C9_UnionColumns ==
    built =>
        /\ { dataset.cols[c] : c \in 1..Len(dataset.cols) } = AllKeys(list_of_dicts)
        /\ Len(dataset.cols) = Cardinality(AllKeys(list_of_dicts))
        /\ Len(dataset.rows) = Len(list_of_dicts)
        /\ \A i \in 1..Len(dataset.rows) :
              /\ Len(dataset.rows[i]) = Len(dataset.cols)
              /\ \A c \in 1..Len(dataset.cols) :
                    dataset.rows[i][c]
                       = ValueOrNull(list_of_dicts, i, dataset.cols[c])
        /\ obj_called =>
              /\ Len(obj_ret) = Len(list_of_dicts)
              /\ \A i \in 1..Len(list_of_dicts) :
                    \A k \in AllKeys(list_of_dicts) :
                       obj_ret[i][k] = ValueOrNull(list_of_dicts, i, k)

C9_Witness ==
    /\ built /\ obj_called
    /\ Len(list_of_dicts) = 2
    /\ DOMAIN list_of_dicts[1] = { name_a }
    /\ DOMAIN list_of_dicts[2] = { name_b }
    /\ dataset.cols = << name_b, name_a >>
    /\ obj_ret[1][name_b] = NullV
    /\ obj_ret[2][name_b] = list_of_dicts[2][name_b]
    /\ obj_ret[2][name_b] # NullV

\* [{"a": 1, "b": "x"}, {"a": 2}]
ExampleDicts ==
    << (name_a :> NumV(1) @@ name_b :> TextV(text_x)), (name_a :> NumV(2)) >>

(* C10: from_list_of_dicts([{"a":1,"b":"x"},{"a":2}]) has the columns      *)
(* ["a","b"] and the rows [1,"x"], [2,null], and to_json of it with        *)
(* root=None is [{"a":1,"b":"x"},{"a":2,"b":null}], on every run.          *)
C10_ExampleOrder ==
    (built /\ list_of_dicts = ExampleDicts) =>
        /\ dataset = MkDataset(<< name_a, name_b >>,
                               << << NumV(1), TextV(text_x) >>,
                                  << NumV(2), NullV >> >>)
        /\ (json_called /\ IsNone(json_root)) =>
              json_ret = << "[", "{", Q, "a", Q, ":", "1", ",",
                            Q, "b", Q, ":", Q, "x", Q, "}", ",",
                            "{", Q, "a", Q, ":", "2", ",",
                            Q, "b", Q, ":", "n", "u", "l", "l", "}", "]" >>

---------------------------------------------------------------------------
(* A standard JSON parser and encoder (RFC 8259, integers only), the       *)
(* yardstick of the properties about the JSON text.                        *)

JNull    == [k |-> "null"]
JStr(s)  == [k |-> "str", s |-> s]
JNum(n)  == [k |-> "num", n |-> n]
JBool(b) == [k |-> "bool", b |-> b]
JArr(a)  == [k |-> "arr", a |-> a]
JObj(m)  == [k |-> "obj", m |-> m]      \* m: sequence of [key, val] members

ParseFail(i)  == [ok |-> FALSE, v |-> JNull, i |-> i]
ParseOk(v, i) == [ok |-> TRUE, v |-> v, i |-> i]

LitAt(t, i, lit) ==
    /\ i + Len(lit) - 1 <= Len(t)
    /\ SubSeq(t, i, i + Len(lit) - 1) = lit

DigitChars == { "0", "1", "2", "3", "4", "5", "6", "7", "8", "9" }

DigitValue(ch) ==
    CHOOSE n \in 0..9 : << "0", "1", "2", "3", "4", "5", "6", "7", "8", "9" >>[n + 1] = ch

\* Characters a JSON string may not hold unescaped, besides '"' and '\'.
ControlChars == { "\n", "\t", "\r", "\f" }

\* The character an escape '\' ch stands for.
Unescape(ch) ==
    CASE ch = "n" -> "\n" [] ch = "t" -> "\t" [] ch = "r" -> "\r"
      [] ch = "f" -> "\f" [] OTHER -> ch

RECURSIVE ParseStringBody(_, _, _)
\* The characters of a string from position j up to its closing quote.
ParseStringBody(t, j, acc) ==
    IF j > Len(t) THEN ParseFail(j)
    ELSE IF t[j] = Q THEN ParseOk(JStr(acc), j + 1)
    ELSE IF t[j] = "\\"
         THEN IF j + 1 <= Len(t) /\ t[j + 1] \in { Q, "\\", "/", "n", "t", "r", "f" }
              THEN ParseStringBody(t, j + 2, Append(acc, Unescape(t[j + 1])))
              ELSE ParseFail(j)
    ELSE IF t[j] \in ControlChars THEN ParseFail(j)
    ELSE ParseStringBody(t, j + 1, Append(acc, t[j]))

ParseString(t, i) ==
    IF i <= Len(t) /\ t[i] = Q THEN ParseStringBody(t, i + 1, << >>)
                               ELSE ParseFail(i)

RECURSIVE ParseDigits(_, _, _)
\* The digits from position j on, as the number they write after acc.
ParseDigits(t, j, acc) ==
    IF j <= Len(t) /\ t[j] \in DigitChars
    THEN ParseDigits(t, j + 1, 10 * acc + DigitValue(t[j]))
    ELSE [n |-> acc, i |-> j]

\* '-'? ( '0' | [1-9][0-9]* )
ParseNumber(t, i) ==
    LET neg   == i <= Len(t) /\ t[i] = "-"
        first == IF neg THEN i + 1 ELSE i
    IN  IF first > Len(t) \/ t[first] \notin DigitChars THEN ParseFail(i)
        ELSE IF t[first] = "0"
             THEN IF first + 1 <= Len(t) /\ t[first + 1] \in DigitChars
                  THEN ParseFail(i)
                  ELSE ParseOk(JNum(0), first + 1)
        ELSE LET d == ParseDigits(t, first, 0)
             IN  ParseOk(JNum(IF neg THEN 0 - d.n ELSE d.n), d.i)

RECURSIVE ParseValue(_, _)
RECURSIVE ParseElements(_, _, _)
RECURSIVE ParseMembers(_, _, _)

\* value (',' value)* ']' from position i on, after the elements acc.
ParseElements(t, i, acc) ==
    LET e == ParseValue(t, i)
    IN  IF ~e.ok \/ e.i > Len(t) THEN ParseFail(i)
        ELSE IF t[e.i] = "," THEN ParseElements(t, e.i + 1, Append(acc, e.v))
        ELSE IF t[e.i] = "]" THEN ParseOk(JArr(Append(acc, e.v)), e.i + 1)
        ELSE ParseFail(e.i)

\* string ':' value (',' string ':' value)* '}' from position i on.
ParseMembers(t, i, acc) ==
    LET key == ParseString(t, i)
    IN  IF ~key.ok \/ key.i > Len(t) \/ t[key.i] # ":" THEN ParseFail(i)
        ELSE LET e == ParseValue(t, key.i + 1)
                 m == Append(acc, [key |-> key.v.s, val |-> e.v])
             IN  IF ~e.ok \/ e.i > Len(t) THEN ParseFail(i)
                 ELSE IF t[e.i] = "," THEN ParseMembers(t, e.i + 1, m)
                 ELSE IF t[e.i] = "}" THEN ParseOk(JObj(m), e.i + 1)
                 ELSE ParseFail(e.i)

ParseValue(t, i) ==
    IF i > Len(t) THEN ParseFail(i)
    ELSE IF LitAt(t, i, << "n", "u", "l", "l" >>) THEN ParseOk(JNull, i + 4)
    ELSE IF LitAt(t, i, << "t", "r", "u", "e" >>) THEN ParseOk(JBool(TRUE), i + 4)
    ELSE IF LitAt(t, i, << "f", "a", "l", "s", "e" >>) THEN ParseOk(JBool(FALSE), i + 5)
    ELSE IF t[i] = Q THEN ParseString(t, i)
    ELSE IF t[i] = "[" THEN
         IF LitAt(t, i, << "[", "]" >>) THEN ParseOk(JArr(<< >>), i + 2)
                                        ELSE ParseElements(t, i + 1, << >>)
    ELSE IF t[i] = "{" THEN
         IF LitAt(t, i, << "{", "}" >>) THEN ParseOk(JObj(<< >>), i + 2)
                                        ELSE ParseMembers(t, i + 1, << >>)
    ELSE ParseNumber(t, i)

\* The whole text as one JSON value.
ParseJson(t) ==
    LET r == ParseValue(t, 1)
    IN  IF r.ok /\ r.i = Len(t) + 1 THEN r ELSE ParseFail(r.i)

RECURSIVE Canon(_)
\* A parsed value up to what value equality ignores: the order of the
\* members of an object, and all but the last member of a repeated key.
Canon(v) ==
    IF v.k = "arr" THEN [k |-> "arr", a |-> [n \in 1..Len(v.a) |-> Canon(v.a[n])]]
    ELSE IF v.k = "obj"
         THEN [k |-> "obj",
               f |-> [key \in { v.m[n].key : n \in 1..Len(v.m) } |->
                        LET last == CHOOSE n \in 1..Len(v.m) :
                                       /\ v.m[n].key = key
                                       /\ \A x \in (n + 1)..Len(v.m) : v.m[x].key # key
                        IN  Canon(v.m[last].val)]]
    ELSE v

RECURSIVE EscapeText(_)
\* A text as the inside of a JSON string.
EscapeText(s) ==
    IF s = << >> THEN << >>
    ELSE (CASE Head(s) = Q    -> << "\\", Q >>
            [] Head(s) = "\\" -> << "\\", "\\" >>
            [] Head(s) = "\n" -> << "\\", "n" >>
            [] Head(s) = "\t" -> << "\\", "t" >>
            [] OTHER          -> << Head(s) >>)
         \o EscapeText(Tail(s))

RECURSIVE SetToSeq(_)
SetToSeq(S) ==
    IF S = { } THEN << >>
    ELSE LET x == CHOOSE y \in S : TRUE IN << x >> \o SetToSeq(S \ { x })

RECURSIVE Encodable(_)
RECURSIVE EncodeValue(_)
RECURSIVE EncodeList(_)

\* Whether a standard encoder accepts the value: a java.util.Date is not
\* JSON serialisable.
Encodable(v) ==
    IF v.k = "Date" THEN FALSE
    ELSE IF v.k = "List"
         THEN \A i \in 1..Len(v.l) : \A key \in DOMAIN v.l[i] : Encodable(v.l[i][key])
    ELSE TRUE

\* A list of dicts as JSON text.
EncodeList(l) ==
    << "[" >>
    \o JoinWith([i \in 1..Len(l) |->
                    << "{" >>
                    \o JoinWith(LET keys == SetToSeq(DOMAIN l[i])
                                IN  [n \in 1..Len(keys) |->
                                       << Q >> \o EscapeText(keys[n]) \o << Q, ":" >>
                                       \o EncodeValue(l[i][keys[n]])],
                                << "," >>)
                    \o << "}" >>],
                << "," >>)
    \o << "]" >>

EncodeValue(v) ==
    IF v.k = "Null" THEN << "n", "u", "l", "l" >>
    ELSE IF v.k = "Text" THEN << Q >> \o EscapeText(v.s) \o << Q >>
    ELSE IF v.k = "Bool" THEN (IF v.b THEN << "t", "r", "u", "e" >>
                                      ELSE << "f", "a", "l", "s", "e" >>)
    ELSE IF v.k = "List" THEN EncodeList(v.l)
    ELSE IntText(v.n)

(* C4: for every dataset, with cells of any kind, to_json(D, root=None)    *)
(* parses as JSON, and the parsed value is an array with one element per   *)
(* row of D, each an object whose keys are the column names of D in        *)
(* column order.                                                           *)
C4_ValidJson ==
    (json_called /\ IsNone(json_root)) =>
        LET p == ParseJson(json_ret)
        IN  /\ p.ok
            /\ p.v.k = "arr"
            /\ Len(p.v.a) = getRowCount(dataset)
            /\ \A i \in 1..Len(p.v.a) :
                  /\ p.v.a[i].k = "obj"
                  /\ [n \in 1..Len(p.v.a[i].m) |-> p.v.a[i].m[n].key]
                        = getColumnNames(dataset)

(* C5: for every dataset, to_jsonobject(D) encoded by a standard JSON      *)
(* encoder and parsed back is value-equal to to_json(D, root=None) parsed  *)
(* by a standard JSON parser, nested cells and duplicated column names     *)
(* included.                                                               *)
C5_RoundTrip ==
    (json_called /\ IsNone(json_root) /\ obj_called) =>
        /\ Encodable([k |-> "List", l |-> obj_ret])
        /\ ParseJson(json_ret).ok
        /\ ParseJson(EncodeList(obj_ret)).ok
        /\ Canon(ParseJson(json_ret).v) = Canon(ParseJson(EncodeList(obj_ret)).v)

---------------------------------------------------------------------------
(* The XML text builder used on its own: any sequence of method calls on   *)
(* one _NanoXML instance.                                                  *)

\* Largest number of method calls made on one builder.
MaxCalls == 4

\* Mutant of append_output: the buffer is assigned, not extended.
assign_output(output, piece) == piece

\* self._output += piece
append_output(output, piece) == output \o piece

BuilderNames  == { name_a, name_row }
BuilderValues == { NumV(7), TextV(text_tag) }

\* xml = _NanoXML(root, indent)
InitBuilder ==
    /\ list_of_dicts = << >>
    /\ built = FALSE
    /\ dataset = NoDataset
    /\ NoConversions /\ NoConnections
    /\ ConvertersIdle
    /\ xml_pc = "builder"
    /\ xml_args \in XmlArgs
    /\ xml_i = 0 /\ xml_h = 0
    /\ xml_output = NanoXML_init(xml_args.root)
    /\ xml_ops = << "init" >>
    /\ xml_ret = << >>

BuilderCanCall == xml_pc = "builder" /\ Len(xml_ops) <= MaxCalls

\* xml.add_element(name)
BuilderAddElement ==
    /\ BuilderCanCall
    /\ \E name \in BuilderNames :
          xml_output' = append_output(xml_output,
                                      add_element(xml_args.indent, name))
    /\ xml_ops' = Append(xml_ops, "add_element")
    /\ UNCHANGED << concVars, dbVars, list_of_dicts, built, dataset, jsonVars, objVars,
                    xml_pc, xml_args, xml_i, xml_h, xml_ret >>

\* xml.add_sub_element(name, value)
BuilderAddSubElement ==
    /\ BuilderCanCall
    /\ \E name \in BuilderNames : \E value \in BuilderValues :
          xml_output' = append_output(xml_output,
                            add_sub_element(xml_args.indent, name, value))
    /\ xml_ops' = Append(xml_ops, "add_sub_element")
    /\ UNCHANGED << concVars, dbVars, list_of_dicts, built, dataset, jsonVars, objVars,
                    xml_pc, xml_args, xml_i, xml_h, xml_ret >>

\* xml.close_element(name)
BuilderCloseElement ==
    /\ BuilderCanCall
    /\ \E name \in BuilderNames :
          xml_output' = append_output(xml_output,
                                      close_element(xml_args.indent, name))
    /\ xml_ops' = Append(xml_ops, "close_element")
    /\ UNCHANGED << concVars, dbVars, list_of_dicts, built, dataset, jsonVars, objVars,
                    xml_pc, xml_args, xml_i, xml_h, xml_ret >>

\* xml.to_string(): no method checks whether it was called before.
BuilderToString ==
    /\ BuilderCanCall
    /\ xml_output' = append_output(xml_output, to_string(xml_args.root))
    /\ xml_ret' = xml_output'
    /\ xml_ops' = Append(xml_ops, "to_string")
    /\ UNCHANGED << concVars, dbVars, list_of_dicts, built, dataset, jsonVars, objVars,
                    xml_pc, xml_args, xml_i, xml_h >>

NextBuilder ==
    \/ BuilderAddElement
    \/ BuilderAddSubElement
    \/ BuilderCloseElement
    \/ BuilderToString

SpecBuilder == InitBuilder /\ [][NextBuilder]_vars

\* to_string has been called on the builder.
Finished == \E n \in 1..Len(xml_ops) : xml_ops[n] = "to_string"

IsPrefix(s, t) == Len(s) <= Len(t) /\ SubSeq(t, 1, Len(s)) = s

(* C11: once to_string (finish) has been called on a builder, a second     *)
(* to_string and every later add_element, add_sub_element or close_element *)
(* fails and leaves the buffer as the first to_string left it.             *)
C11_SingleUse == [][Finished => xml_output' = xml_output]_vars

(* C17: every call of add_element, add_sub_element, close_element and      *)
(* to_string only appends: the buffer before the call is a prefix of the   *)
(* buffer after it; the buffer always starts with '<root>\n' for the root  *)
(* given at construction; root and indent stay as constructed.             *)
C17_AppendOnly ==
    /\ [](IsPrefix(OpenTag(xml_args.root) \o << "\n" >>, xml_output))
    /\ [][/\ IsPrefix(xml_output, xml_output')
          /\ Len(xml_output') > Len(xml_output)
          /\ xml_args' = xml_args]_vars

C17_Witness ==
    /\ xml_pc = "builder"
    /\ Len(xml_ops) = 5
    /\ xml_ops[2] = "add_sub_element" /\ xml_ops[3] = "to_string"
    /\ xml_ops[4] = "close_element" /\ xml_ops[5] = "to_string"
    /\ IsPrefix(OpenTag(xml_args.root) \o << "\n" >>, xml_output)
    /\ IsPrefix(xml_ret, xml_output)

---------------------------------------------------------------------------
(* Formatting of one cell value.                                           *)

\* The text a scalar cell contributes, by kind.
ValueText(cell) ==
    CASE cell.k = "Null" -> << "n", "u", "l", "l" >>
      [] cell.k = "Text" -> << "\"" >> \o cell.s \o << "\"" >>
      [] cell.k = "Date" -> << "\"" >> \o dateFormat(cell.t) \o << "\"" >>
      [] cell.k = "Bool" -> IF cell.b THEN << "T", "r", "u", "e" >>
                            ELSE << "F", "a", "l", "s", "e" >>
      [] cell.k = "Num"  -> IntText(cell.n)

\* Number of formatting rules that apply to a cell.
RulesApplying(cell) ==
    Cardinality({ k \in { "Null", "Text", "Date", "Dataset", "Bool", "Num" } :
                    cell.k = k })

\* Every cell the conversion of ds reads, nested datasets included.
RECURSIVE CellsOf(_)
CellsOf(ds) ==
    LET here == { CellAt(ds, p[1], p[2]) :
                    p \in (1..Len(ds.rows)) \X (1..Len(ds.cols)) }
    IN  here \cup UNION { CellsOf(c.d) : c \in { x \in here : x.k = "Dataset" } }

RECURSIVE ValueJson(_, _)
\* The document of a dataset whose pairs carry ValueText of their cell and
\* whose nested-dataset cells carry the document of the nested dataset.
ValueJson(ds, key) ==
    (IF IsNone(key) THEN << >> ELSE << "\"" >> \o key[1] \o << "\"", ":" >>)
    \o << "[" >>
    \o JoinWith([r \in 1..Len(ds.rows) |->
                    << "{" >>
                    \o JoinWith([c \in 1..Len(ds.cols) |->
                                    IF CellAt(ds, r, c).k = "Dataset"
                                    THEN ValueJson(CellAt(ds, r, c).d,
                                                   Some(ds.cols[c]))
                                    ELSE << "\"" >> \o ds.cols[c]
                                         \o << "\"", ":" >>
                                         \o ValueText(CellAt(ds, r, c))],
                                << "," >>)
                    \o << "}" >>],
                << "," >>)
    \o << "]" >>

---------------------------------------------------------------------------
(* Recursion on nested datasets.                                           *)

RECURSIVE NestedCells(_)
\* Number of cells holding a dataset, in ds and in the datasets its cells
\* hold.
NestedCells(ds) ==
    SumSeq([n \in 1..(Len(ds.rows) * Len(ds.cols)) |->
              LET cell == ds.rows[((n - 1) \div Len(ds.cols)) + 1]
                                 [((n - 1) % Len(ds.cols)) + 1]
              IN  IF cell.k = "Dataset" THEN 1 + NestedCells(cell.d) ELSE 0])

(* C13: to_json and to_jsonobject return for every valid dataset, having   *)
(* made exactly one recursive call per nested-dataset cell, nested to a    *)
(* depth of at most the nesting depth of the dataset.                      *)
C13_RecursionPerCell ==
    /\ json_called => /\ json_recursion.calls = NestedCells(dataset)
                      /\ json_recursion.depth <= Depth(dataset)
    /\ obj_called  => /\ obj_recursion.calls = NestedCells(dataset)
                      /\ obj_recursion.depth <= Depth(dataset)

\* The part of C13 that holds: the recursion is no deeper than the nesting
\* of the dataset.
RecursionDepthBounded ==
    /\ json_called => json_recursion.depth <= Depth(dataset)
    /\ obj_called => obj_recursion.depth <= Depth(dataset)

---------------------------------------------------------------------------
(* Concurrent conversions: MaxConversions calls of to_json, to_jsonobject  *)
(* and to_xml run with the iterations of their loops interleaved. Each     *)
(* call has its own locals (procs[p]); the Datasets they read are in heap. *)

\* Number of conversion calls that run concurrently.
MaxConversions == 2

Conversions == 1..MaxConversions

\* The Datasets the calls read: a two-row one with a nested cell, and a
\* one-cell one.
ConvHeap ==
    << MkDataset(<< name_a, name_b >>,
                 << << NumV(7), DataV(Inner1) >>,
                    << NullV, TextV(text_x) >> >>),
       MkDataset(<< name_a >>, << << TextV(text_tag) >> >>) >>

ConvRoots == { Some(name_root) }

ConvXmlArgs ==
    { [root |-> name_root, element |-> name_row, indent |-> << "\t" >>],
      [root |-> name_row,  element |-> name_a,   indent |-> << >>] }

\* Mutant of new_builder: one module-level builder serves every call.
module_builder(p) == 1

\* xml = _NanoXML(root, indent): the builder of call p is a new object.
new_builder(p) == p

NotCalled == [kind |-> "none", pc |-> "idle", overlapped |-> FALSE]

\* Another call has started and not yet returned.
Overlaps(p) ==
    \E q \in Conversions \ { p } : procs[q].pc \notin { "idle", "done" }

InitConc ==
    /\ list_of_dicts = << >>
    /\ built = FALSE
    /\ dataset = NoDataset
    /\ NoConnections
    /\ ConvertersIdle /\ XmlIdle
    /\ heap = ConvHeap
    /\ procs = [p \in Conversions |-> NotCalled]
    /\ buffers = [p \in Conversions |-> << >>]

ConvUnchanged ==
    UNCHANGED << dbVars, list_of_dicts, built, dataset, jsonVars, objVars,
                 xmlVars, heap >>

\* Call p takes a step that leaves `locals` as its record.
ConvStep(p, locals) ==
    procs' = [procs EXCEPT ![p] =
                [locals EXCEPT !.overlapped = @ \/ Overlaps(p)]]

\* to_json(heap[d], root) is entered: ret_str gets its prefix.
ConvJsonCall(p) ==
    /\ procs[p].pc = "idle"
    /\ \E d \in 1..Len(heap) : \E root \in ConvRoots :
          ConvStep(p, [kind |-> "json", pc |-> "rows", overlapped |-> FALSE,
                       ds |-> d, root |-> root, row_count |-> 1, h |-> 0,
                       ret_str |-> json_open(root, TRUE), col_count |-> 0,
                       ret |-> << >>])
    /\ UNCHANGED buffers /\ ConvUnchanged

\* ret_str += "{" for the next row.
ConvJsonRow(p) ==
    /\ procs[p].kind = "json" /\ procs[p].pc = "rows"
    /\ procs[p].row_count <= getRowCount(heap[procs[p].ds])
    /\ ConvStep(p, [procs[p] EXCEPT !.ret_str = @ \o << "{" >>,
                                    !.h = 1, !.pc = "headers"])
    /\ UNCHANGED buffers /\ ConvUnchanged

\* One iteration of `for header in headers`.
ConvJsonHeader(p) ==
    /\ procs[p].kind = "json" /\ procs[p].pc = "headers"
    /\ procs[p].h <= getColumnCount(heap[procs[p].ds])
    /\ LET ds == heap[procs[p].ds]
           col_count == procs[p].col_count + 1
       IN  ConvStep(p, [procs[p] EXCEPT
                 !.col_count = col_count,
                 !.ret_str = @ \o json_pair(ds, procs[p].row_count,
                                            getColumnNames(ds)[procs[p].h],
                                            col_count),
                 !.h = @ + 1])
    /\ UNCHANGED buffers /\ ConvUnchanged

\* The row is closed and col_count reset.
ConvJsonRowEnd(p) ==
    /\ procs[p].kind = "json" /\ procs[p].pc = "headers"
    /\ procs[p].h > getColumnCount(heap[procs[p].ds])
    /\ LET ds == heap[procs[p].ds]
       IN  ConvStep(p, [procs[p] EXCEPT
                 !.ret_str = @ \o << "}" >>
                               \o row_comma(procs[p].row_count, getRowCount(ds)),
                 !.col_count = col_count_reset(@),
                 !.row_count = @ + 1, !.h = 0, !.pc = "rows"])
    /\ UNCHANGED buffers /\ ConvUnchanged

\* ret_str gets its suffix and is returned.
ConvJsonReturn(p) ==
    /\ procs[p].kind = "json" /\ procs[p].pc = "rows"
    /\ procs[p].row_count > getRowCount(heap[procs[p].ds])
    /\ ConvStep(p, [procs[p] EXCEPT
              !.ret = procs[p].ret_str \o json_close(procs[p].root, TRUE),
              !.pc = "done"])
    /\ UNCHANGED buffers /\ ConvUnchanged

\* to_jsonobject(heap[d]) is entered: data = [].
ConvObjCall(p) ==
    /\ procs[p].pc = "idle"
    /\ \E d \in 1..Len(heap) :
          ConvStep(p, [kind |-> "obj", pc |-> "rows", overlapped |-> FALSE,
                       ds |-> d, i |-> 1, data |-> << >>, ret |-> << >>])
    /\ UNCHANGED buffers /\ ConvUnchanged

\* data.append(row_dict) for row i.
ConvObjRow(p) ==
    /\ procs[p].kind = "obj" /\ procs[p].pc = "rows"
    /\ procs[p].i <= getRowCount(heap[procs[p].ds])
    /\ ConvStep(p, [procs[p] EXCEPT
              !.data = Append(@, row_dict(heap[procs[p].ds], procs[p].i)),
              !.i = @ + 1])
    /\ UNCHANGED buffers /\ ConvUnchanged

\* return data
ConvObjReturn(p) ==
    /\ procs[p].kind = "obj" /\ procs[p].pc = "rows"
    /\ procs[p].i > getRowCount(heap[procs[p].ds])
    /\ ConvStep(p, [procs[p] EXCEPT !.ret = procs[p].data, !.pc = "done"])
    /\ UNCHANGED buffers /\ ConvUnchanged

\* to_xml(heap[d], root, element, indent) is entered and makes its builder.
ConvXmlCall(p) ==
    /\ procs[p].pc = "idle"
    /\ \E d \in 1..Len(heap) : \E args \in ConvXmlArgs :
          /\ ConvStep(p, [kind |-> "xml", pc |-> "rows", overlapped |-> FALSE,
                          ds |-> d, args |-> args, i |-> 1, h |-> 0,
                          xml |-> new_builder(p), ret |-> << >>])
          /\ buffers' = [buffers EXCEPT
                            ![new_builder(p)] = NanoXML_init(args.root)]
    /\ ConvUnchanged

\* xml.add_element(element) for row i.
ConvXmlAddElement(p) ==
    /\ procs[p].kind = "xml" /\ procs[p].pc = "rows"
    /\ procs[p].i <= getRowCount(heap[procs[p].ds])
    /\ buffers' = [buffers EXCEPT ![procs[p].xml] =
                      append_output(@, add_element(procs[p].args.indent,
                                                   procs[p].args.element))]
    /\ ConvStep(p, [procs[p] EXCEPT !.h = 1, !.pc = "headers"])
    /\ ConvUnchanged

\* xml.add_sub_element(header, dataset.getValueAt(i, header))
ConvXmlAddSubElement(p) ==
    /\ procs[p].kind = "xml" /\ procs[p].pc = "headers"
    /\ procs[p].h <= getColumnCount(heap[procs[p].ds])
    /\ LET ds == heap[procs[p].ds]
           header == getColumnNames(ds)[procs[p].h]
       IN  buffers' = [buffers EXCEPT ![procs[p].xml] =
                         append_output(@,
                             add_sub_element(procs[p].args.indent, header,
                                 getValueAt(ds, procs[p].i, header)))]
    /\ ConvStep(p, [procs[p] EXCEPT !.h = @ + 1])
    /\ ConvUnchanged

\* xml.close_element(element), after the last header of row i.
ConvXmlCloseElement(p) ==
    /\ procs[p].kind = "xml" /\ procs[p].pc = "headers"
    /\ procs[p].h > getColumnCount(heap[procs[p].ds])
    /\ buffers' = [buffers EXCEPT ![procs[p].xml] =
                      append_output(@, close_element(procs[p].args.indent,
                                                     procs[p].args.element))]
    /\ ConvStep(p, [procs[p] EXCEPT !.i = @ + 1, !.h = 0, !.pc = "rows"])
    /\ ConvUnchanged

\* return xml.to_string(), after the last row.
ConvXmlReturn(p) ==
    /\ procs[p].kind = "xml" /\ procs[p].pc = "rows"
    /\ procs[p].i > getRowCount(heap[procs[p].ds])
    /\ buffers' = [buffers EXCEPT ![procs[p].xml] =
                      append_output(@, to_string(procs[p].args.root))]
    /\ ConvStep(p, [procs[p] EXCEPT !.ret = buffers'[procs[p].xml],
                                    !.pc = "done"])
    /\ ConvUnchanged

NextConc ==
    \/ \E p \in Conversions : ConvJsonCall(p)
    \/ \E p \in Conversions : ConvJsonRow(p)
    \/ \E p \in Conversions : ConvJsonHeader(p)
    \/ \E p \in Conversions : ConvJsonRowEnd(p)
    \/ \E p \in Conversions : ConvJsonReturn(p)
    \/ \E p \in Conversions : ConvObjCall(p)
    \/ \E p \in Conversions : ConvObjRow(p)
    \/ \E p \in Conversions : ConvObjReturn(p)
    \/ \E p \in Conversions : ConvXmlCall(p)
    \/ \E p \in Conversions : ConvXmlAddElement(p)
    \/ \E p \in Conversions : ConvXmlAddSubElement(p)
    \/ \E p \in Conversions : ConvXmlCloseElement(p)
    \/ \E p \in Conversions : ConvXmlReturn(p)

SpecConc == InitConc /\ [][NextConc]_vars

\* What the call with the locals `c` returns when it runs alone.
ResultAlone(c) ==
    CASE c.kind = "json" -> to_json(ConvHeap[c.ds], c.root)
      [] c.kind = "obj"  -> to_jsonobject(ConvHeap[c.ds])
      [] c.kind = "xml"  -> XmlDocument(ConvHeap[c.ds], c.args)

(* C14: when conversions run with their steps interleaved in any order,    *)
(* each returns the result it returns when run alone, the input datasets   *)
(* are the same in every reachable state, and a builder buffer is changed  *)
(* only by steps of the to_xml call that created it, which only append.    *)
C14_Independent ==
    /\ [](/\ heap = ConvHeap
          /\ \A p \in Conversions :
                procs[p].pc = "done" => procs[p].ret = ResultAlone(procs[p]))
    /\ [][\A b \in Conversions :
            buffers'[b] # buffers[b]
               => /\ procs'[b] # procs[b]
                  /\ procs'[b].kind = "xml"
                  /\ \/ procs[b].pc = "idle"
                     \/ IsPrefix(buffers[b], buffers'[b])]_vars

C14_Witness ==
    /\ \A p \in Conversions : procs[p].pc = "done" /\ procs[p].overlapped
    /\ procs[1].kind = "xml" /\ procs[2].kind = "xml"
    /\ procs[1].ds = procs[2].ds
    /\ procs[1].ret = ResultAlone(procs[1])
    /\ procs[2].ret = ResultAlone(procs[2])

---------------------------------------------------------------------------
(* incendium.db.DisposableConnection (src/ignition/script-python/          *)
(* incendium/db/code.py): with-blocks on one database name. __enter__ and  *)
(* __exit__ run as the separate reads and writes of the datasource and of  *)
(* system.util.globals the code makes; contexts of several threads         *)
(* interleave at these steps.                                              *)

\* Number of with-blocks on the same database name.
MaxContexts == 2

\* Largest value of the retries argument.
MaxRetries == 2

\* def __init__(self, database, retries=3)
DefaultRetries == 3

\* Status values of a datasource that is enabled.
EnabledStatuses == { "Reconnecting", "Valid", "Faulted" }

\* DisposableConnection(database, retries)
NewContext(retries) ==
    [pc |-> "new", retries |-> retries, iter |-> 0, checks |-> 0,
     tmp |-> 0, raised |-> ""]

DatasourceIdle ==
    /\ datasource_enabled = FALSE /\ datasource_status = "Disabled"
    /\ globals = << >>

DbOnly ==
    /\ list_of_dicts = << >>
    /\ built = FALSE
    /\ dataset = NoDataset
    /\ NoConversions
    /\ ConvertersIdle /\ XmlIdle

\* MaxContexts with-blocks with the default number of retries.
InitDb ==
    /\ DbOnly /\ DatasourceIdle
    /\ contexts = [c \in 1..MaxContexts |-> NewContext(DefaultRetries)]

\* One with-block, with any number of retries up to MaxRetries.
InitRetry ==
    /\ DbOnly /\ DatasourceIdle
    /\ \E retries \in 0..MaxRetries : contexts = << NewContext(retries) >>

DbUnchanged ==
    UNCHANGED << concVars, list_of_dicts, built, dataset, jsonVars, objVars,
                 xmlVars >>

\* system.db.setDatasourceEnabled(database, True)
setDatasourceEnabled_True ==
    /\ datasource_enabled' = TRUE
    /\ datasource_status' = IF datasource_enabled THEN datasource_status
                                                  ELSE "Reconnecting"

\* system.db.setDatasourceEnabled(database, False)
setDatasourceEnabled_False ==
    /\ datasource_enabled' = FALSE
    /\ datasource_status' = "Disabled"

\* The platform changes the status of the enabled datasource.
StatusChange ==
    /\ datasource_enabled
    /\ \E s \in EnabledStatuses \ { datasource_status } :
          datasource_status' = s
    /\ UNCHANGED << datasource_enabled, globals, contexts >>
    /\ DbUnchanged

\* __enter__: the datasource is enabled.
EnterEnable(c) ==
    /\ contexts[c].pc = "new"
    /\ setDatasourceEnabled_True
    /\ contexts' = [contexts EXCEPT ![c].pc = "for"]
    /\ UNCHANGED globals /\ DbUnchanged

\* `for _ in range(self._retries):` has another iteration; Thread.sleep.
EnterSleep(c) ==
    /\ contexts[c].pc = "for"
    /\ contexts[c].iter < contexts[c].retries
    /\ contexts' = [contexts EXCEPT ![c].iter = @ + 1, ![c].pc = "if_valid"]
    /\ UNCHANGED << datasource_enabled, datasource_status, globals >>
    /\ DbUnchanged

\* The loop ran out: the else branch raises 'could not be enabled'.
EnterNotEnabled(c) ==
    /\ contexts[c].pc = "for"
    /\ contexts[c].iter >= contexts[c].retries
    /\ contexts' = [contexts EXCEPT ![c].raised = "could not be enabled",
                                    ![c].pc = "raised"]
    /\ UNCHANGED << datasource_enabled, datasource_status, globals >>
    /\ DbUnchanged

\* if self.status == "Valid":
EnterIfValid(c) ==
    /\ contexts[c].pc = "if_valid"
    /\ contexts' = [contexts EXCEPT
          ![c].checks = @ + 1,
          ![c].pc = IF datasource_status = "Valid" THEN "if_not_in"
                                                   ELSE "if_faulted"]
    /\ UNCHANGED << datasource_enabled, datasource_status, globals >>
    /\ DbUnchanged

\* if self.status == "Faulted": raise IOError, else the next iteration.
EnterIfFaulted(c) ==
    /\ contexts[c].pc = "if_faulted"
    /\ contexts' = IF datasource_status = "Faulted"
                   THEN [contexts EXCEPT ![c].raised = "Faulted",
                                         ![c].pc = "raised"]
                   ELSE [contexts EXCEPT ![c].pc = "for"]
    /\ UNCHANGED << datasource_enabled, datasource_status, globals >>
    /\ DbUnchanged

\* if self._global_conn not in system.util.globals:
EnterIfNotIn(c) ==
    /\ contexts[c].pc = "if_not_in"
    /\ contexts' = [contexts EXCEPT
          ![c].pc = IF globals = << >> THEN "set_zero" ELSE "incr_get"]
    /\ UNCHANGED << datasource_enabled, datasource_status, globals >>
    /\ DbUnchanged

\* system.util.globals[self._global_conn] = 0
EnterSetZero(c) ==
    /\ contexts[c].pc = "set_zero"
    /\ globals' = << 0 >>
    /\ contexts' = [contexts EXCEPT ![c].pc = "incr_get"]
    /\ UNCHANGED << datasource_enabled, datasource_status >>
    /\ DbUnchanged

\* system.util.globals[self._global_conn] += 1: the item is read.
EnterIncrGet(c) ==
    /\ contexts[c].pc = "incr_get"
    /\ contexts' = [contexts EXCEPT ![c].tmp = globals[1],
                                    ![c].pc = "incr_set"]
    /\ UNCHANGED << datasource_enabled, datasource_status, globals >>
    /\ DbUnchanged

\* ... += 1: the item is stored; break; return self.
EnterIncrSet(c) ==
    /\ contexts[c].pc = "incr_set"
    /\ globals' = << contexts[c].tmp + 1 >>
    /\ contexts' = [contexts EXCEPT ![c].pc = "entered"]
    /\ UNCHANGED << datasource_enabled, datasource_status >>
    /\ DbUnchanged

\* __exit__: system.util.globals[self._global_conn] -= 1: the item is read.
ExitDecrGet(c) ==
    /\ contexts[c].pc = "entered"
    /\ contexts' = [contexts EXCEPT ![c].tmp = globals[1],
                                    ![c].pc = "decr_set"]
    /\ UNCHANGED << datasource_enabled, datasource_status, globals >>
    /\ DbUnchanged

\* ... -= 1: the item is stored.
ExitDecrSet(c) ==
    /\ contexts[c].pc = "decr_set"
    /\ globals' = << contexts[c].tmp - 1 >>
    /\ contexts' = [contexts EXCEPT ![c].pc = "if_zero"]
    /\ UNCHANGED << datasource_enabled, datasource_status >>
    /\ DbUnchanged

\* if system.util.globals[self._global_conn] == 0:
ExitIfZero(c) ==
    /\ contexts[c].pc = "if_zero"
    /\ contexts' = [contexts EXCEPT
          ![c].pc = IF globals[1] = 0 THEN "disable" ELSE "exited"]
    /\ UNCHANGED << datasource_enabled, datasource_status, globals >>
    /\ DbUnchanged

\* system.db.setDatasourceEnabled(self._database, False)
ExitDisable(c) ==
    /\ contexts[c].pc = "disable"
    /\ setDatasourceEnabled_False
    /\ contexts' = [contexts EXCEPT ![c].pc = "exited"]
    /\ UNCHANGED globals /\ DbUnchanged

NextDb ==
    \/ StatusChange
    \/ \E c \in DOMAIN contexts : EnterEnable(c)
    \/ \E c \in DOMAIN contexts : EnterSleep(c)
    \/ \E c \in DOMAIN contexts : EnterNotEnabled(c)
    \/ \E c \in DOMAIN contexts : EnterIfValid(c)
    \/ \E c \in DOMAIN contexts : EnterIfFaulted(c)
    \/ \E c \in DOMAIN contexts : EnterIfNotIn(c)
    \/ \E c \in DOMAIN contexts : EnterSetZero(c)
    \/ \E c \in DOMAIN contexts : EnterIncrGet(c)
    \/ \E c \in DOMAIN contexts : EnterIncrSet(c)
    \/ \E c \in DOMAIN contexts : ExitDecrGet(c)
    \/ \E c \in DOMAIN contexts : ExitDecrSet(c)
    \/ \E c \in DOMAIN contexts : ExitIfZero(c)
    \/ \E c \in DOMAIN contexts : ExitDisable(c)

SpecDb    == InitDb /\ [][NextDb]_vars
SpecRetry == InitRetry /\ [][NextDb]_vars

\* Contexts whose __enter__ has returned and whose __exit__ has not begun.
ActiveContexts == { c \in DOMAIN contexts : contexts[c].pc = "entered" }

\* No context is inside __enter__ or __exit__.
Quiescent ==
    \A c \in DOMAIN contexts :
        contexts[c].pc \in { "new", "entered", "exited", "raised" }

UsageCounter == IF globals = << >> THEN 0 ELSE globals[1]

(* C15: however the steps of __enter__ and __exit__ of the with-blocks on  *)
(* one database name interleave, the datasource is not disabled while a    *)
(* context that entered has not exited, and whenever no context is inside  *)
(* __enter__ or __exit__ the shared counter equals the number of active    *)
(* contexts.                                                               *)
C15_CounterGuardsDatasource ==
    /\ ActiveContexts # { } => datasource_enabled
    /\ Quiescent => UsageCounter = Cardinality(ActiveContexts)

(* C16: __enter__ with retries = n checks the status up to n + 1 times and *)
(* raises 'could not be enabled' only after n + 1 checks that saw neither  *)
(* 'Valid' nor 'Faulted'; it returns with the counter incremented by one,  *)
(* and when it raises the counter is unchanged.                            *)
C16_RetriesAreAdditional ==
    \A c \in DOMAIN contexts :
        /\ contexts[c].checks <= contexts[c].retries + 1
        /\ contexts[c].raised = "could not be enabled"
              => contexts[c].checks = contexts[c].retries + 1
        /\ contexts[c].pc = "raised" => globals = << >>
        /\ contexts[c].pc = "entered" => globals = << 1 >>

\* What the code does instead: n checks for retries = n.
RetriesAreChecks ==
    \A c \in DOMAIN contexts :
        /\ contexts[c].checks <= contexts[c].retries
        /\ contexts[c].raised = "could not be enabled"
              => contexts[c].checks = contexts[c].retries
        /\ contexts[c].pc = "raised" => globals = << >>
        /\ contexts[c].pc = "entered" => globals = << 1 >>

=============================================================================
